---- MODULE Spec2Model ----
(***************************************************************************)
(* A model of spellingfixer.py: the trainer (compute_emissions,            *)
(* compute_transitions, the vocabulary built by main), the Viterbi decoder *)
(* (viterbi) and the vocabulary snapper (closest_known_word).              *)
(*                                                                         *)
(* Representation.                                                         *)
(*  - a character is a one-character string; a word is a sequence of      *)
(*    characters; a dict is a function whose DOMAIN is its set of keys.    *)
(*  - a probability is the pair <<count, total>> it was computed from      *)
(*    (count / total); the floor 1e-6 is <<1, 1000000>>.                   *)
(*  - a score is a double that is never positive. It is held exactly, by  *)
(*    its magnitude mant * 2^e as <<e, hi, lo>>, where the 53-bit mantissa  *)
(*    is mant = hi * 2^26 + lo (2^52 <= mant < 2^53); 0.0 is Zero and        *)
(*    float("-inf") is NegInf.  DAdd is the addition of doubles (round to   *)
(*    nearest, ties to even), DGreater is >, and MathLog holds the doubles  *)
(*    math.log returns.                                                      *)
(***************************************************************************)
EXTENDS Integers, Sequences, FiniteSets, TLC

VARIABLES
    pairs,             \* main: the training pairs returned by load_data
    emission_probs,    \* main: compute_emissions(pairs)
    transition_probs,  \* main: compute_transitions(pairs)
    dictionary_words,  \* main: the distinct correct words, in order of first appearance
    pc,                \* position of the program
    typed,             \* viterbi: the observed word
    V,                 \* viterbi: the list of score dicts
    path,              \* viterbi: the best path ending in each letter
    t,                 \* viterbi: the code's next loop index t; the code's V[t - 1]
                       \* is V[t] here, sequences being 1-based
    decoded,           \* the value returned by viterbi
    candidate,         \* closest_known_word: its first argument
    fixed,             \* the value returned by closest_known_word
    first              \* history: the first finished decode-then-snap call,
                       \* and whether the current call repeats its word

vars == <<pairs, emission_probs, transition_probs, dictionary_words, pc, typed,
          V, path, t, decoded, candidate, fixed, first>>

----------------------------------------------------------------------------
(* Bounds and input sets *)

MaxPairs == 2

cat == <<"c", "a", "t">>
cet == <<"c", "e", "t">>
tot == <<"t", "o", "t">>

\* The (correct, typed) pairs a corpus may hold: a word typed correctly, a word
\* typed with a wrong letter and one letter too many, a word typed one letter
\* short.
Corpus == { <<cat, cat>>, <<cat, <<"c", "e", "t", "s">>>>, <<tot, <<"t", "o">>>> }

\* The words handed to viterbi and to closest_known_word.
TypedWords == { <<>>, <<"c", "'">>, <<"t", "a">>, cat, cet }

PairLists == UNION { [1..n -> Corpus] : n \in 0..MaxPairs }

\* The words of a corpus that holds one word paired with itself: a word of
\* distinct letters, words with repeated letters, a word with an apostrophe.
banana == <<"b", "a", "n", "a", "n", "a">>
IdentityWords == { cat, tot, banana, <<"c", "'">> }

IdentityLists == UNION { [1..n -> { <<w, w>> }] : w \in IdentityWords, n \in 1..MaxPairs }

----------------------------------------------------------------------------
(* Python values *)

EmptyDict == [x \in {} |-> 0]
None == "None"
FLOOR == <<1, 1000000>>

\* string.ascii_lowercase, as a list
letters == << "a", "b", "c", "d", "e", "f", "g", "h", "i", "j", "k", "l", "m",
              "n", "o", "p", "q", "r", "s", "t", "u", "v", "w", "x", "y", "z" >>

LetterSet == { letters[i] : i \in 1..Len(letters) }

----------------------------------------------------------------------------
(* Doubles that are not positive: <<e, hi, lo>> is -(hi * 2^26 + lo) * 2^e *)

\* the mantissa of a double is hi * LimbSize + lo, with 2^26 <= hi < 2^27
LimbSize == 2^26

\* 0.0: its exponent is below the exponent of every other double
Zero == <<-1075, 0, 0>>

\* float("-inf"): its exponent is above the exponent of every double
NegInf == <<1024, 0, 0>>

\* a result past the largest double is infinite
Finite(e, hi, lo) == IF e > 971 THEN NegInf ELSE <<e, hi, lo>>

\* Round to nearest, ties to even: g is the first bit dropped below the
\* mantissa, s is 1 when any later dropped bit is set
Rounded(e, hi, lo, g, s) ==
    IF g = 0 \/ (s = 0 /\ lo % 2 = 0) THEN Finite(e, hi, lo)
    ELSE IF lo + 1 < LimbSize THEN Finite(e, hi, lo + 1)
    ELSE IF hi + 1 < 2 * LimbSize THEN Finite(e, hi + 1, 0)
    ELSE Finite(e + 1, LimbSize, 0)

\* a sum of 54 bits drops its last bit
Normalized(e, hi, lo, g, s) ==
    IF hi < 2 * LimbSize THEN Rounded(e, hi, lo, g, s)
    ELSE Rounded(e + 1, hi \div 2, (hi % 2) * (LimbSize \div 2) + (lo \div 2),
                 lo % 2, IF g = 1 \/ s = 1 THEN 1 ELSE 0)

\* the carry from lo to hi
Summed(e, hi, lo, g, s) ==
    Normalized(e, hi + (lo \div LimbSize), lo % LimbSize, g, s)

Sticky(x) == IF x = 0 THEN 0 ELSE 1

\* The mantissa hi, lo shifted right by d bits, p = 2^d, d <= 26:
\* <<hi, lo, g, s>> of what is kept and what is dropped
ShiftLow(hi, lo, p) ==
    <<hi \div p, (hi % p) * (LimbSize \div p) + (lo \div p),
      (2 * (lo % p)) \div p, Sticky((2 * (lo % p)) % p)>>

\* the same for d = 26 + k bits, p = 2^k, 1 <= k <= 27
ShiftHigh(hi, lo, p) ==
    <<0, hi \div p, (2 * (hi % p)) \div p, Sticky(((2 * (hi % p)) % p) + lo)>>

Shifted(b, d) ==
    IF d <= 26 THEN ShiftLow(b[2], b[3], 2^d) ELSE ShiftHigh(b[2], b[3], 2^(d - 26))

AddShifted(a, sh) == Summed(a[1], a[2] + sh[1], a[3] + sh[2], sh[3], sh[4])

\* a + b for |a| >= |b|: b is aligned to the exponent of a; a summand below
\* half of the last bit of a leaves a
AddOrdered(a, b) ==
    IF a[1] - b[1] >= 54 THEN a ELSE AddShifted(a, Shifted(b, a[1] - b[1]))

\* |a| < |b|
MagLess(a, b) ==
    \/ a[1] < b[1]
    \/ a[1] = b[1] /\ a[2] < b[2]
    \/ a[1] = b[1] /\ a[2] = b[2] /\ a[3] < b[3]

\* a + b on doubles
DAdd(a, b) ==
    IF a = NegInf \/ b = NegInf THEN NegInf
    ELSE IF MagLess(a, b) THEN AddOrdered(b, a)
    ELSE AddOrdered(a, b)

\* a > b on doubles
DGreater(a, b) == MagLess(a, b)

\* math.log(1e-6) = -13.815510557964274
LogFloor == <<-49, 115892902, 26214304>>

\* math.log(count / total), the double CPython returns, for the counts and
\* totals up to 16
MathLogTable ==
    (<<1, 1>> :> Zero)
    @@ (<<1, 2>> :> <<-53, 93032639, 49953263>>) @@ (<<2, 2>> :> Zero)
    @@ (<<1, 3>> :> <<-52, 73726622, 44892939>>) @@ (<<2, 3>> :> <<-54, 108841211, 12556365>>)
    @@ (<<3, 3>> :> Zero)
    @@ (<<1, 4>> :> <<-52, 93032639, 49953263>>) @@ (<<2, 4>> :> <<-53, 93032639, 49953263>>)
    @@ (<<3, 4>> :> <<-54, 77224068, 20241298>>) @@ (<<4, 4>> :> Zero)
    @@ (<<1, 5>> :> <<-52, 108007549, 65899827>>) @@ (<<2, 5>> :> <<-53, 122982460, 14737527>>)
    @@ (<<3, 5>> :> <<-53, 68561854, 42013778>>) @@ (<<4, 5>> :> <<-55, 119799281, 60463648>>)
    @@ (<<5, 5>> :> Zero)
    @@ (<<1, 6>> :> <<-52, 120242942, 36315138>>) @@ (<<2, 6>> :> <<-52, 73726622, 44892939>>)
    @@ (<<3, 6>> :> <<-53, 93032639, 49953263>>) @@ (<<4, 6>> :> <<-54, 108841211, 12556365>>)
    @@ (<<5, 6>> :> <<-55, 97883140, 31757941>>) @@ (<<6, 6>> :> Zero)
    @@ (<<1, 7>> :> <<-52, 130587819, 36854360>>) @@ (<<2, 7>> :> <<-52, 84071499, 45432160>>)
    @@ (<<3, 7>> :> <<-53, 113722393, 51031706>>) @@ (<<4, 7>> :> <<-53, 75110359, 40911057>>)
    @@ (<<5, 7>> :> <<-54, 90321078, 18035855>>) @@ (<<6, 7>> :> <<-55, 82759016, 4313771>>)
    @@ (<<7, 7>> :> Zero)
    @@ (<<1, 8>> :> <<-51, 69774479, 54242163>>) @@ (<<2, 8>> :> <<-52, 93032639, 49953263>>)
    @@ (<<3, 8>> :> <<-53, 131644673, 60073912>>) @@ (<<4, 8>> :> <<-53, 93032639, 49953263>>)
    @@ (<<5, 8>> :> <<-54, 126165638, 36120270>>) @@ (<<6, 8>> :> <<-54, 77224068, 20241298>>)
    @@ (<<7, 8>> :> <<-55, 71689120, 36168828>>) @@ (<<8, 8>> :> Zero)
    @@ (<<1, 9>> :> <<-51, 73726622, 44892939>>) @@ (<<2, 9>> :> <<-52, 100936925, 31254814>>)
    @@ (<<3, 9>> :> <<-52, 73726622, 44892939>>) @@ (<<4, 9>> :> <<-53, 108841211, 12556364>>)
    @@ (<<5, 9>> :> <<-53, 78891390, 47772099>>) @@ (<<6, 9>> :> <<-54, 108841211, 12556365>>)
    @@ (<<7, 9>> :> <<-54, 67461703, 10399479>>) @@ (<<8, 9>> :> <<-56, 126468571, 36369130>>)
    @@ (<<9, 9>> :> Zero)
    @@ (<<1, 10>> :> <<-51, 77261934, 62215445>>) @@ (<<2, 10>> :> <<-52, 108007549, 65899827>>)
    @@ (<<3, 10>> :> <<-52, 80797247, 12429089>>) @@ (<<4, 10>> :> <<-53, 122982460, 14737527>>)
    @@ (<<5, 10>> :> <<-53, 93032639, 49953263>>) @@ (<<6, 10>> :> <<-53, 68561854, 42013778>>)
    @@ (<<7, 10>> :> <<-54, 95744201, 14761808>>) @@ (<<8, 10>> :> <<-55, 119799281, 60463648>>)
    @@ (<<9, 10>> :> <<-56, 113129992, 17449308>>) @@ (<<10, 10>> :> Zero)
    @@ (<<1, 11>> :> <<-51, 80460013, 58668876>>) @@ (<<2, 11>> :> <<-52, 114403707, 58806688>>)
    @@ (<<3, 11>> :> <<-52, 87193405, 5335949>>) @@ (<<4, 11>> :> <<-52, 67887388, 275624>>)
    @@ (<<5, 11>> :> <<-53, 105824955, 35766984>>) @@ (<<6, 11>> :> <<-53, 81354170, 27827499>>)
    @@ (<<7, 11>> :> <<-54, 121328832, 53498113>>) @@ (<<8, 11>> :> <<-54, 85484272, 35413698>>)
    @@ (<<9, 11>> :> <<-55, 107734259, 19088400>>) @@ (<<10, 11>> :> <<-56, 102338526, 20727497>>)
    @@ (<<11, 11>> :> Zero)
    @@ (<<1, 12>> :> <<-51, 83379631, 13868669>>) @@ (<<2, 12>> :> <<-52, 120242942, 36315138>>)
    @@ (<<3, 12>> :> <<-52, 93032639, 49953263>>) @@ (<<4, 12>> :> <<-52, 73726622, 44892939>>)
    @@ (<<5, 12>> :> <<-53, 117503424, 57892748>>) @@ (<<6, 12>> :> <<-53, 93032639, 49953263>>)
    @@ (<<7, 12>> :> <<-53, 72342885, 48874820>>) @@ (<<8, 12>> :> <<-54, 108841211, 12556365>>)
    @@ (<<9, 12>> :> <<-54, 77224068, 20241298>>) @@ (<<10, 12>> :> <<-55, 97883140, 31757941>>)
    @@ (<<11, 12>> :> <<-56, 93427754, 42788393>>) @@ (<<12, 12>> :> Zero)
    @@ (<<1, 13>> :> <<-51, 86065418, 53578833>>) @@ (<<2, 13>> :> <<-52, 125614517, 48626602>>)
    @@ (<<3, 13>> :> <<-52, 98404214, 62264727>>) @@ (<<4, 13>> :> <<-52, 79098197, 57204403>>)
    @@ (<<5, 13>> :> <<-53, 128246575, 15406813>>) @@ (<<6, 13>> :> <<-53, 103775790, 7467327>>)
    @@ (<<7, 13>> :> <<-53, 83086036, 6388886>>) @@ (<<8, 13>> :> <<-54, 130327511, 61802220>>)
    @@ (<<9, 13>> :> <<-54, 98710369, 2378292>>) @@ (<<10, 13>> :> <<-54, 70427870, 65124827>>)
    @@ (<<11, 13>> :> <<-55, 89686478, 52777045>>) @@ (<<12, 13>> :> <<-56, 85945202, 62765695>>)
    @@ (<<13, 13>> :> Zero)
    @@ (<<1, 14>> :> <<-51, 88552069, 47692712>>) @@ (<<2, 14>> :> <<-52, 130587819, 36854360>>)
    @@ (<<3, 14>> :> <<-52, 103377516, 50492485>>) @@ (<<4, 14>> :> <<-52, 84071499, 45432160>>)
    @@ (<<5, 14>> :> <<-52, 69096589, 29485595>>) @@ (<<6, 14>> :> <<-53, 113722393, 51031706>>)
    @@ (<<7, 14>> :> <<-53, 93032639, 49953263>>) @@ (<<8, 14>> :> <<-53, 75110359, 40911057>>)
    @@ (<<9, 14>> :> <<-54, 118603576, 22398182>>) @@ (<<10, 14>> :> <<-54, 90321078, 18035855>>)
    @@ (<<11, 14>> :> <<-55, 129472893, 25707965>>) @@ (<<12, 14>> :> <<-55, 82759016, 4313771>>)
    @@ (<<13, 14>> :> <<-56, 79572829, 12970701>>) @@ (<<14, 14>> :> Zero)
    @@ (<<1, 15>> :> <<-51, 90867086, 21841951>>) @@ (<<2, 15>> :> <<-51, 67608926, 26130851>>)
    @@ (<<3, 15>> :> <<-52, 108007549, 65899827>>) @@ (<<4, 15>> :> <<-52, 88701532, 60839503>>)
    @@ (<<5, 15>> :> <<-52, 73726622, 44892939>>) @@ (<<6, 15>> :> <<-53, 122982460, 14737527>>)
    @@ (<<7, 15>> :> <<-53, 102292706, 13659085>>) @@ (<<8, 15>> :> <<-53, 84370426, 4616879>>)
    @@ (<<9, 15>> :> <<-53, 68561854, 42013778>>) @@ (<<10, 15>> :> <<-54, 108841211, 12556365>>)
    @@ (<<11, 15>> :> <<-54, 83256579, 40928924>>) @@ (<<12, 15>> :> <<-55, 119799281, 60463648>>)
    @@ (<<13, 15>> :> <<-55, 76826680, 29080799>>) @@ (<<14, 15>> :> <<-56, 74080531, 45190896>>)
    @@ (<<15, 15>> :> Zero)
    @@ (<<1, 16>> :> <<-51, 93032639, 49953263>>) @@ (<<2, 16>> :> <<-51, 69774479, 54242163>>)
    @@ (<<3, 16>> :> <<-52, 112338656, 55013588>>) @@ (<<4, 16>> :> <<-52, 93032639, 49953263>>)
    @@ (<<5, 16>> :> <<-52, 78057729, 34006699>>) @@ (<<6, 16>> :> <<-53, 131644673, 60073912>>)
    @@ (<<7, 16>> :> <<-53, 110954919, 58995470>>) @@ (<<8, 16>> :> <<-53, 93032639, 49953263>>)
    @@ (<<9, 16>> :> <<-53, 77224068, 20241298>>) @@ (<<10, 16>> :> <<-54, 126165638, 36120270>>)
    @@ (<<11, 16>> :> <<-54, 100581006, 64492828>>) @@ (<<12, 16>> :> <<-54, 77224068, 20241298>>)
    @@ (<<13, 16>> :> <<-55, 111475535, 9099747>>) @@ (<<14, 16>> :> <<-55, 71689120, 36168828>>)
    @@ (<<15, 16>> :> <<-56, 69297709, 27146759>>) @@ (<<16, 16>> :> Zero)

\* math.log(p) for p = count / total
MathLog(p) == IF p = FLOOR THEN LogFloor ELSE MathLogTable[p]

GetDefaultOne(d, a, b) ==
    IF a \in DOMAIN d /\ b \in DOMAIN d[a] THEN d[a][b] ELSE <<1, 1>>

\* d.get(a, {}).get(b, 1e-6)
Get(d, a, b) == IF a \in DOMAIN d /\ b \in DOMAIN d[a] THEN d[a][b] ELSE FLOOR

----------------------------------------------------------------------------
(* compute_emissions and compute_transitions *)

\* if a not in d: d[a] = {}; if b not in d[a]: d[a][b] = 0; d[a][b] += 1
Count(d, a, b) ==
    IF a \notin DOMAIN d THEN d @@ (a :> (b :> 1))
    ELSE IF b \notin DOMAIN d[a] THEN [d EXCEPT ![a] = @ @@ (b :> 1)]
    ELSE [d EXCEPT ![a][b] = @ + 1]

LengthLessOne(correct, typd) ==
    IF Len(typd) < Len(correct) THEN Len(typd) - 1 ELSE Len(correct) - 1

\* length = len(correct); if len(typed) < length: length = len(typed)
AlignedLength(correct, typd) ==
    IF Len(typd) < Len(correct) THEN Len(typd) ELSE Len(correct)

\* for i in range(length): count (correct[i], typed[i])      (i is 1-based here)
RECURSIVE EmitPair(_, _, _, _)
EmitPair(d, correct, typd, i) ==
    IF i > AlignedLength(correct, typd) THEN d
    ELSE EmitPair(Count(d, correct[i], typd[i]), correct, typd, i + 1)

\* for correct, typed in pairs: ...
RECURSIVE EmitCounts(_, _, _)
EmitCounts(d, ps, k) ==
    IF k > Len(ps) THEN d
    ELSE EmitCounts(EmitPair(d, ps[k][1], ps[k][2], 1), ps, k + 1)

\* word = "^" + correct + "$"
Padded(correct) == <<"^">> \o correct \o <<"$">>

\* for i in range(len(word) - 1): count (word[i], word[i + 1])
RECURSIVE TransWord(_, _, _)
TransWord(d, word, i) ==
    IF i > Len(word) - 1 THEN d
    ELSE TransWord(Count(d, word[i], word[i + 1]), word, i + 1)

RECURSIVE TransCounts(_, _, _)
TransCounts(d, ps, k) ==
    IF k > Len(ps) THEN d
    ELSE TransCounts(TransWord(d, Padded(ps[k][1]), 1), ps, k + 1)

\* total = 0; for b in row: total += row[b]
RECURSIVE RowTotal(_, _)
RowTotal(row, keys) ==
    IF keys = {} THEN 0
    ELSE LET b == CHOOSE x \in keys : TRUE
         IN  row[b] + RowTotal(row, keys \ {b})

NormalizeByGrandTotal(d) ==
    LET all == RowTotal([a \in DOMAIN d |-> RowTotal(d[a], DOMAIN d[a])], DOMAIN d)
    IN  [a \in DOMAIN d |-> [b \in DOMAIN d[a] |-> <<d[a][b], all>>]]

\* probs[a][b] = counts[a][b] / total
Normalize(d) ==
    [a \in DOMAIN d |->
        [b \in DOMAIN d[a] |-> <<d[a][b], RowTotal(d[a], DOMAIN d[a])>>]]

compute_emissions(ps) == Normalize(EmitCounts(EmptyDict, ps, 1))

compute_transitions(ps) == Normalize(TransCounts(EmptyDict, ps, 1))

\* main: for correct, _ in pairs: if correct not in dictionary_words: append
RECURSIVE BuildDictionary(_, _, _)
BuildDictionary(words, ps, k) ==
    IF k > Len(ps) THEN words
    ELSE LET correct == ps[k][1]
         IN  BuildDictionary(
                 IF \E j \in 1..Len(words) : words[j] = correct
                 THEN words ELSE Append(words, correct),
                 ps, k + 1)

----------------------------------------------------------------------------
(* viterbi *)

\* lines 116-118: V[0][s] = log P(s | "^") + log P(typed[0] | s)
InitScore(s, typd, T, E) ==
    DAdd(MathLog(Get(T, "^", s)), MathLog(Get(E, s, typd[1])))

SwappedStepProb(s0, s, obs, Vprev, T, E) ==
    LET prev_prob == IF s0 \in DOMAIN Vprev THEN Vprev[s0] ELSE NegInf
    IN  DAdd(DAdd(prev_prob, MathLog(Get(T, s, s0))), MathLog(Get(E, s, obs)))

\* lines 129-132: prob = V[t-1].get(s0, -inf) + log P(s | s0) + log P(typed[t] | s)
StepProb(s0, s, obs, Vprev, T, E) ==
    LET prev_prob == IF s0 \in DOMAIN Vprev THEN Vprev[s0] ELSE NegInf
    IN  DAdd(DAdd(prev_prob, MathLog(Get(T, s0, s))), MathLog(Get(E, s, obs)))

NotWorse(prob, max_prob) == ~DGreater(max_prob, prob)

\* lines 134 and 150: if prob > max_prob
Better(prob, max_prob) == DGreater(prob, max_prob)

\* lines 125-136: the scan over s0 in letters, from letters[i] on, with the
\* running (max_prob, prev_state)
RECURSIVE ScanPrev(_, _, _, _, _, _, _, _)
ScanPrev(i, max_prob, prev_state, s, obs, Vprev, T, E) ==
    IF i > Len(letters) THEN [max_prob |-> max_prob, prev_state |-> prev_state]
    ELSE LET s0   == letters[i]
             prob == StepProb(s0, s, obs, Vprev, T, E)
         IN  IF Better(prob, max_prob)
             THEN ScanPrev(i + 1, prob, s0, s, obs, Vprev, T, E)
             ELSE ScanPrev(i + 1, max_prob, prev_state, s, obs, Vprev, T, E)

\* lines 138-140: V[t][s] = max_prob; if prev_state is not None: newpath[s] = ...
Record(step, s, scan, oldpath) ==
    [V    |-> step.V @@ (s :> scan.max_prob),
     path |-> IF scan.prev_state # None
              THEN step.path @@ (s :> Append(oldpath[scan.prev_state], s))
              ELSE step.path]

\* lines 124-140: the loop over s in letters, from letters[i] on, filling V[t]
\* and newpath (step)
RECURSIVE StepLetters(_, _, _, _, _, _, _)
StepLetters(i, step, obs, Vprev, oldpath, T, E) ==
    IF i > Len(letters) THEN step
    ELSE StepLetters(i + 1,
                     Record(step, letters[i],
                            ScanPrev(1, NegInf, None, letters[i], obs, Vprev, T, E),
                            oldpath),
                     obs, Vprev, oldpath, T, E)

\* V.append(V[t]); path = newpath
Advance(Vs, step) == [V |-> Append(Vs, step.V), path |-> step.path]

\* lines 147-149: total_prob = V[len(typed) - 1].get(s, -inf) + log P("$" | s)
EndProb(s, Vlast, T) ==
    LET last_prob == IF s \in DOMAIN Vlast THEN Vlast[s] ELSE NegInf
    IN  DAdd(last_prob, MathLog(Get(T, s, "$")))

\* lines 144-152: the scan over s in letters
RECURSIVE ScanEnd(_, _, _, _, _)
ScanEnd(i, max_prob, best_state, Vlast, T) ==
    IF i > Len(letters) THEN best_state
    ELSE LET s          == letters[i]
             total_prob == EndProb(s, Vlast, T)
         IN  IF Better(total_prob, max_prob)
             THEN ScanEnd(i + 1, total_prob, s, Vlast, T)
             ELSE ScanEnd(i + 1, max_prob, best_state, Vlast, T)

----------------------------------------------------------------------------
(* closest_known_word *)

Contains(words, w) == \E j \in 1..Len(words) : words[j] = w

Abs(x) == IF x < 0 THEN -x ELSE x

Min(a, b) == IF a < b THEN a ELSE b

\* lines 179-181: the mismatches among the first m positions, from i on
RECURSIVE Mismatches(_, _, _, _)
Mismatches(word, cand, i, m) ==
    IF i > m THEN 0
    ELSE (IF word[i] # cand[i] THEN 1 ELSE 0) + Mismatches(word, cand, i + 1, m)

\* lines 177-181
Dist(word, cand) ==
    Abs(Len(word) - Len(cand)) + Mismatches(word, cand, 1, Min(Len(word), Len(cand)))

BestScoreInit == 1000000000

CloserOrEqual(dist, best_score) == dist <= best_score

\* line 182: if dist < best_score
Closer(dist, best_score) == dist < best_score

\* lines 176-184: the scan over dictionary_words, from index k on
RECURSIVE ScanWords(_, _, _, _, _)
ScanWords(k, best, best_score, cand, words) ==
    IF k > Len(words) THEN best
    ELSE LET dist == Dist(words[k], cand)
         IN  IF Closer(dist, best_score)
             THEN ScanWords(k + 1, words[k], dist, cand, words)
             ELSE ScanWords(k + 1, best, best_score, cand, words)

KeepCandidate(cand, words) == cand

closest_known_word(cand, words) ==
    IF Contains(words, cand) THEN cand
    ELSE ScanWords(1, cand, BestScoreInit, cand, words)

----------------------------------------------------------------------------
(* The program *)

NoWord == <<"-">>     \* a local that holds nothing yet

\* The history: state is "off" (not kept), "fresh" (kept, no call finished),
\* "set" (the first call is recorded) or "again" (the current call decodes the
\* word of the first call once more).
History(st) == [state |-> st, typed |-> NoWord, decoded |-> NoWord, fixed |-> NoWord]

Locals0 ==
    /\ typed = NoWord /\ V = <<>> /\ path = EmptyDict /\ t = 0
    /\ decoded = NoWord /\ candidate = NoWord /\ fixed = NoWord

InitFrom(lists, h) ==
    /\ pairs \in lists
    /\ emission_probs = EmptyDict
    /\ transition_probs = EmptyDict
    /\ dictionary_words = <<>>
    /\ pc = "load"
    /\ Locals0
    /\ first = h

Init == InitFrom(PairLists, History("off"))

InitOrder == InitFrom(PairLists, History("fresh"))

\* the corpus is one word paired with itself, one or more times
InitIdentity == InitFrom(IdentityLists, History("off"))

\* main, lines 190-197
Train ==
    /\ pc = "load"
    /\ emission_probs' = compute_emissions(pairs)
    /\ transition_probs' = compute_transitions(pairs)
    /\ dictionary_words' = BuildDictionary(<<>>, pairs, 1)
    /\ pc' = "ready"
    /\ UNCHANGED <<pairs, typed, V, path, t, decoded, candidate, fixed, first>>

\* viterbi(w, ...), lines 111-119; typed[0] raises IndexError on the empty word
ViterbiCall(w) ==
    /\ pc = "ready"
    /\ typed' = w
    /\ IF Len(w) = 0
       THEN /\ V' = <<EmptyDict>>
            /\ path' = EmptyDict
            /\ pc' = "raised"
       ELSE /\ V' = <<[s \in LetterSet |->
                         InitScore(s, w, transition_probs, emission_probs)]>>
            /\ path' = [s \in LetterSet |-> <<s>>]
            /\ pc' = "loop"
    /\ first' = IF first.state = "set" /\ first.typed = w
                THEN [first EXCEPT !.state = "again"] ELSE first
    /\ t' = 1
    /\ UNCHANGED <<pairs, emission_probs, transition_probs, dictionary_words,
                   decoded, candidate, fixed>>

\* viterbi called on a typed word: one of the typed words, or a word of the
\* vocabulary typed as it is spelled
CallViterbi ==
    \E w \in TypedWords \cup { dictionary_words[k] : k \in 1..Len(dictionary_words) } :
        ViterbiCall(w)

\* viterbi, lines 121-142: one iteration of the loop over t
ViterbiStep ==
    /\ pc = "loop"
    /\ t < Len(typed)
    \* next is the one result of the iteration
    /\ \E next \in { Advance(V, StepLetters(1, [V |-> EmptyDict, path |-> EmptyDict],
                                              typed[t + 1], V[t], path,
                                              transition_probs, emission_probs)) } :
           /\ V' = next.V
           /\ path' = next.path
    /\ t' = t + 1
    /\ UNCHANGED <<pairs, emission_probs, transition_probs, dictionary_words, pc,
                   typed, decoded, candidate, fixed, first>>

\* viterbi, lines 144-156
ViterbiReturn ==
    /\ pc = "loop"
    /\ t >= Len(typed)
    /\ LET best_state == ScanEnd(1, NegInf, None, V[Len(typed)], transition_probs)
       IN  decoded' = IF best_state = None THEN typed ELSE path[best_state]
    /\ pc' = "returned"
    /\ UNCHANGED <<pairs, emission_probs, transition_probs, dictionary_words,
                   typed, V, path, t, candidate, fixed, first>>

SnapLearns ==
    /\ pc = "returned"
    /\ candidate' = decoded
    /\ fixed' = closest_known_word(decoded, dictionary_words)
    /\ dictionary_words' = IF Contains(dictionary_words, decoded) THEN dictionary_words
                           ELSE Append(dictionary_words, decoded)
    /\ first' = IF first.state = "fresh"
                THEN [state |-> "set", typed |-> typed, decoded |-> decoded,
                      fixed |-> fixed']
                ELSE first
    /\ pc' = "fixed"
    /\ UNCHANGED <<pairs, emission_probs, transition_probs, typed, V, path, t, decoded>>

\* main, line 209: fixed = closest_known_word(decoded, dictionary_words)
Snap ==
    /\ pc = "returned"
    /\ candidate' = decoded
    /\ fixed' = closest_known_word(decoded, dictionary_words)
    /\ first' = IF first.state = "fresh"
                THEN [state |-> "set", typed |-> typed, decoded |-> decoded,
                      fixed |-> fixed']
                ELSE first
    /\ pc' = "fixed"
    /\ UNCHANGED <<pairs, emission_probs, transition_probs, dictionary_words,
                   typed, V, path, t, decoded>>

\* closest_known_word called on its own, lines 170-185
CallSnap ==
    /\ pc = "ready"
    /\ \E c \in TypedWords :
        /\ candidate' = c
        /\ fixed' = closest_known_word(c, dictionary_words)
    /\ pc' = "snapped"
    /\ UNCHANGED <<pairs, emission_probs, transition_probs, dictionary_words,
                   typed, V, path, t, decoded, first>>

\* main, lines 207-210: the call has returned, its locals are gone; next word
NextWord ==
    /\ pc \in {"fixed", "snapped"}
    /\ pc' = "ready"
    /\ typed' = NoWord /\ V' = <<>> /\ path' = EmptyDict /\ t' = 0
    /\ decoded' = NoWord /\ candidate' = NoWord /\ fixed' = NoWord
    /\ first' = IF first.state = "again" THEN [first EXCEPT !.state = "set"] ELSE first
    /\ UNCHANGED <<pairs, emission_probs, transition_probs, dictionary_words>>

Next ==
    \/ Train
    \/ CallViterbi
    \/ ViterbiStep
    \/ ViterbiReturn
    \/ Snap
    \/ CallSnap
    \/ NextWord

Spec == Init /\ [][Next]_vars

SpecOrder == InitOrder /\ [][Next]_vars

SpecIdentity == InitIdentity /\ [][Next]_vars

----------------------------------------------------------------------------
(* Claims *)

Range(f) == { f[x] : x \in DOMAIN f }

Trained == pc # "load"

\* The real logarithm, for the total score of C2: ln(p) * 1e6, rounded, for
\* the primes the counts of the model can contain; ln(n) is the sum over the
\* prime factors of n, so equal products have equal logarithms
LnPrime == (2 :> 693147) @@ (3 :> 1098612) @@ (5 :> 1609438) @@ (7 :> 1945910)
           @@ (11 :> 2397895) @@ (13 :> 2564949) @@ (17 :> 2833213)
           @@ (19 :> 2944439) @@ (23 :> 3135494) @@ (29 :> 3367296)
           @@ (31 :> 3433987)

RECURSIVE Ln(_)
Ln(n) == IF n = 1 THEN 0
         ELSE LET p == CHOOSE q \in DOMAIN LnPrime :
                           /\ n % q = 0
                           /\ \A r \in DOMAIN LnPrime : n % r = 0 => q <= r
              IN  LnPrime[p] + Ln(n \div p)

LnFloor == Ln(FLOOR[2])

\* Ln, tabulated for the counts and totals the training sets of the model yield
LnTable == [n \in 1..32 |-> Ln(n)]

\* ln(count / total), a real number, in units of 1e-6
RealLog(p) == IF p = FLOOR THEN -LnFloor ELSE LnTable[p[1]] - LnTable[p[2]]

\* The total score of a letter sequence for an observed word of the same length:
\* log P(s_1 | start) + sum of log P(observed[i] | s_i)
\*   + sum over i > 1 of log P(s_i | s_(i-1)) + log P(end | s_n)
RECURSIVE EmitSum(_, _, _, _)
EmitSum(seq, typd, E, i) ==
    IF i > Len(typd) THEN 0
    ELSE RealLog(Get(E, seq[i], typd[i])) + EmitSum(seq, typd, E, i + 1)

RECURSIVE TransSum(_, _, _)
TransSum(seq, T, i) ==
    IF i > Len(seq) THEN 0
    ELSE RealLog(Get(T, seq[i - 1], seq[i])) + TransSum(seq, T, i + 1)

TotalScore(seq, typd, T, E) ==
    RealLog(Get(T, "^", seq[1])) + EmitSum(seq, typd, E, 1) + TransSum(seq, T, 2)
        + RealLog(Get(T, seq[Len(seq)], "$"))

\* C1: every call of viterbi ends by returning a string whose length is the
\* length of the observed word.
C1_SameLength ==
    pc \in {"raised", "returned"} =>
        /\ pc = "returned"
        /\ Len(decoded) = Len(typed)

\* C2: the word viterbi returns for a non-empty observed word is a sequence of
\* letters of the same length, and no sequence of letters of that length has a
\* strictly higher total score.
C2_MostProbable ==
    pc = "returned" =>
        /\ decoded \in [1..Len(typed) -> LetterSet]
        /\ LET best == TotalScore(decoded, typed, transition_probs, emission_probs)
           IN  \A seq \in [1..Len(typed) -> LetterSet] :
                  TotalScore(seq, typed, transition_probs, emission_probs) <= best

\* a three-letter word decoded, with trained tables, to another word
C2_Witness ==
    /\ pc = "returned"
    /\ Len(typed) = 3
    /\ decoded # typed
    /\ pairs # <<>>

\* C3: viterbi called with a zero-length observed word returns the empty string
\* and does not raise.
C3_EmptyWordReturnsEmpty ==
    (typed = <<>>) =>
        /\ pc # "raised"
        /\ pc = "returned" => decoded = <<>>

\* C4: closest_known_word returns an element of the vocabulary when the
\* vocabulary is non-empty and its candidate when the vocabulary is empty; so
\* every word the decode-then-snap pipeline outputs is in the vocabulary unless
\* the vocabulary is empty.
C4_SnapInVocabulary ==
    pc \in {"fixed", "snapped"} =>
        IF dictionary_words = <<>>
        THEN fixed = candidate
        ELSE fixed \in Range(dictionary_words)

\* the pipeline has snapped a decoded word that is not in the vocabulary
C4_Witness ==
    /\ pc = "fixed"
    /\ dictionary_words # <<>>
    /\ candidate \notin Range(dictionary_words)
    /\ fixed # candidate

\* |len(word) - len(candidate)| + the number of indices i < min(len(word),
\* len(candidate)) with word[i] # candidate[i]
Distance(word, cand) ==
    LET diff  == IF Len(word) >= Len(cand) THEN Len(word) - Len(cand)
                 ELSE Len(cand) - Len(word)
        short == IF Len(word) <= Len(cand) THEN Len(word) ELSE Len(cand)
    IN  diff + Cardinality({ i \in 1..short : word[i] # cand[i] })

\* C5: with a non-empty vocabulary, closest_known_word returns the candidate
\* when it is in the vocabulary, and otherwise the first word of the vocabulary
\* whose distance to the candidate is the minimum over the vocabulary.
C5_FirstClosest ==
    (pc \in {"fixed", "snapped"} /\ dictionary_words # <<>>) =>
        IF candidate \in Range(dictionary_words)
        THEN fixed = candidate
        ELSE \E k \in 1..Len(dictionary_words) :
                /\ fixed = dictionary_words[k]
                /\ \A j \in 1..Len(dictionary_words) :
                      Distance(dictionary_words[j], candidate)
                          >= Distance(dictionary_words[k], candidate)
                /\ \A j \in 1..(k - 1) :
                      Distance(dictionary_words[j], candidate)
                          > Distance(dictionary_words[k], candidate)

\* a candidate outside the vocabulary with two words at the minimum distance
C5_Witness ==
    /\ pc = "snapped"
    /\ candidate \notin Range(dictionary_words)
    /\ \E j, k \in 1..Len(dictionary_words) :
          /\ j < k
          /\ fixed = dictionary_words[j]
          /\ Distance(dictionary_words[j], candidate)
                = Distance(dictionary_words[k], candidate)

\* the sum of the counts of a row of a table
RECURSIVE SumCounts(_, _)
SumCounts(row, keys) ==
    IF keys = {} THEN 0
    ELSE LET b == CHOOSE x \in keys : TRUE
         IN  row[b][1] + SumCounts(row, keys \ {b})

\* every row of the table is non-empty, every entry count / total has
\* 0 < count <= total, and total is the sum of the counts of the row
RowsAreDistributions(table) ==
    \A a \in DOMAIN table :
        /\ DOMAIN table[a] # {}
        /\ \A b \in DOMAIN table[a] :
              /\ 0 < table[a][b][1]
              /\ table[a][b][1] <= table[a][b][2]
              /\ table[a][b][2] = SumCounts(table[a], DOMAIN table[a])

\* C6: every row of the emission table and of the transition table sums to 1,
\* each entry being its count divided by the sum of the counts of its row; every
\* entry is in (0, 1] and no row is empty.
C6_RowsSumToOne ==
    Trained => /\ RowsAreDistributions(emission_probs)
               /\ RowsAreDistributions(transition_probs)

\* tables with an emission row of two entries and a transition row of total two
C6_Witness ==
    /\ Trained
    /\ \E a \in DOMAIN emission_probs : Cardinality(DOMAIN emission_probs[a]) >= 2
    /\ \E a \in DOMAIN transition_probs : \E b \in DOMAIN transition_probs[a] :
          transition_probs[a][b][2] >= 2

\* the training set is the pair (w, w), one or more times
IdentityTraining(w) ==
    /\ Len(pairs) >= 1
    /\ \A k \in 1..Len(pairs) : pairs[k] = <<w, w>>

Lowercase(w) == \A i \in 1..Len(w) : w[i] \in LetterSet

\* C7, as stated: when the training set is only the pair ("cat", "cat") repeated
\* one or more times, viterbi applied to "cat" returns "cat", and the same holds
\* of any single word paired with itself: viterbi applied to the word returns
\* the word.
C7_IdentityAnyWord ==
    (pc = "returned" /\ IdentityTraining(typed)) => decoded = typed

\* C7, amended: when the training set is only the pair (w, w) repeated one or
\* more times, viterbi applied to w returns w for "cat" and for every other w
\* of 1 to 999 lowercase letters, and returns a string other than w for every
\* w that holds a character that is not a lowercase letter.
C7_IdentityDecoding ==
    (pc = "returned" /\ IdentityTraining(typed)) =>
        /\ (Lowercase(typed) /\ Len(typed) < 1000) => decoded = typed
        /\ ~Lowercase(typed) => decoded # typed

\* a word with repeated letters, whose transition rows are not single entries,
\* decoded after training on the word paired with itself twice
C7_Witness ==
    /\ pc = "returned"
    /\ pairs = <<<<banana, banana>>, <<banana, banana>>>>
    /\ typed = banana
    /\ decoded = banana

\* the tables and the vocabulary are left as they are
TablesUnchanged ==
    UNCHANGED <<emission_probs, transition_probs, dictionary_words>>

\* a later call on the word of the first call gives what the first call gave
SameAsFirst ==
    first.state = "again" =>
        /\ pc = "returned" => decoded = first.decoded
        /\ pc = "fixed" => (decoded = first.decoded /\ fixed = first.fixed)

\* C8: viterbi and closest_known_word leave the transition table, the emission
\* table and the vocabulary unchanged, and a word decoded and snapped after any
\* sequence of other calls gives the same results as when it was the first word.
C8_OrderIndependent ==
    /\ [][Trained => TablesUnchanged]_vars
    /\ []SameAsFirst

\* the word of the first call has been decoded and snapped once more
C8_Witness ==
    /\ pc = "fixed"
    /\ first.state = "again"
    /\ dictionary_words # <<>>
    /\ fixed # decoded

\* best-score(t-1, s0) + log P(s | s0) + log P(obs | s), as the double the code
\* computes (the sum is taken from left to right)
Extend(Vprev, s0, s, obs) ==
    DAdd(DAdd(Vprev[s0], MathLog(Get(transition_probs, s0, s))),
         MathLog(Get(emission_probs, s, obs)))

\* the alphabetically first letter at which f, a function from the letters to
\* doubles, attains its maximum
FirstArgmax(f) ==
    letters[CHOOSE k \in 1..Len(letters) :
                /\ \A j \in 1..Len(letters) : ~DGreater(f[letters[j]], f[letters[k]])
                /\ \A j \in 1..(k - 1) : DGreater(f[letters[k]], f[letters[j]])]

\* the recurrence, over one iteration of the loop of viterbi
RecurrenceStep ==
    ViterbiStep =>
        \A s \in LetterSet :
            LET score == [s0 \in LetterSet |-> Extend(V[t], s0, s, typed[t + 1])]
                prev  == FirstArgmax(score)
            IN  /\ V'[t + 1][s] = score[prev]
                /\ \A s0 \in LetterSet : ~DGreater(score[s0], V'[t + 1][s])
                /\ path'[s] = Append(path[prev], s)

\* the termination
Termination ==
    pc = "returned" =>
        LET total == [s \in LetterSet |->
                         DAdd(V[Len(typed)][s],
                              MathLog(Get(transition_probs, s, "$")))]
        IN  decoded = path[FirstArgmax(total)]

\* C9 (the scores being the doubles the code computes): at every position
\* t >= 1 and for every letter s the recorded score is the maximum over the
\* previous letters s0 of best-score(t-1, s0) + log P(s | s0) +
\* log P(observed[t] | s), the recorded path extends the path of the
\* alphabetically first s0 attaining it, and the word returned is the path of
\* the alphabetically first letter attaining the maximum of best-score(last, s)
\* + log P(end | s).
C9_FirstMaximum ==
    /\ [][RecurrenceStep]_vars
    /\ []Termination

\* after an iteration in which, for some letter, two previous letters tie at the
\* maximum, with trained tables
C9_Witness ==
    /\ pc = "loop"
    /\ t >= 2
    /\ pairs # <<>>
    /\ \E s \in LetterSet : \E i, j \in 1..Len(letters) :
          /\ i < j
          /\ Extend(V[t - 1], letters[i], s, typed[t]) = V[t][s]
          /\ Extend(V[t - 1], letters[j], s, typed[t]) = V[t][s]
          /\ path[s] = <<letters[i], s>>

\* the aligned positions of the training pairs: (pair index, character index)
AlignedPositions ==
    UNION { { <<k, i>> : i \in (1..Len(pairs[k][1])) \cap (1..Len(pairs[k][2])) } :
            k \in 1..Len(pairs) }

\* the aligned positions at which c was typed as x
Occurrences(c, x) ==
    { p \in AlignedPositions : pairs[p[1]][1][p[2]] = c /\ pairs[p[1]][2][p[2]] = x }

\* the aligned positions at which the correct character is c
CorrectAt(c) == { p \in AlignedPositions : pairs[p[1]][1][p[2]] = c }

\* C10: the count compute_emissions accumulates for (c, x) is the number of
\* aligned positions (index below the length of the shorter string) where c is
\* typed as x, and c has a row exactly when it occurs at an aligned position.
C10_EmissionCounts ==
    Trained =>
        /\ DOMAIN emission_probs =
              { pairs[p[1]][1][p[2]] : p \in AlignedPositions }
        /\ \A c \in DOMAIN emission_probs :
              /\ DOMAIN emission_probs[c] =
                    { pairs[p[1]][2][p[2]] : p \in CorrectAt(c) }
              /\ \A x \in DOMAIN emission_probs[c] :
                    emission_probs[c][x][1] = Cardinality(Occurrences(c, x))

\* "tot" typed "to", twice: the first t is counted twice, the last t never
C10_Witness ==
    /\ Trained
    /\ pairs = <<<<tot, <<"t", "o">>>>, <<tot, <<"t", "o">>>>>>
    /\ emission_probs["t"]["t"][1] = 2

====
